---------------------------- MODULE Spec2Model ----------------------------
(***************************************************************************)
(* A model of class Every (src/every.py): a gate that lets a stored action *)
(* run at most once per call and once per elapsed interval.                *)
(*                                                                         *)
(* Time is counted in whole ticks of the time source.  A time source is a  *)
(* zero-argument function whose successive readings never decrease; the    *)
(* model keeps the current reading of each known source in `clock' and     *)
(* lets it grow one tick at a time (several ticks between two calls are a  *)
(* jump).  The stored action is a caller-supplied callable: the model      *)
(* applies it symbolically and lets it either return or raise.             *)
(***************************************************************************)
EXTENDS Integers, Sequences, FiniteSets, TLC

(***************************************************************************)
(* Bounds of the model.                                                    *)
(***************************************************************************)
MaxTime == 5        \* largest reading of a time source
MaxStart == 1       \* largest reading of a time source at construction
MaxInterval == 2    \* largest interval handed to the gate

None == "None"

\* Python's None as a returned value, and the absence of a return value.
NoResult == << >>
NoReturn == << >>

\* No fire yet; no due time recorded.
Never == 0 - 1

\* The time sources: the default of __init__ and one handed to using().
TimeFuncs == {"monotonic", "perf_counter"}

\* The callables handed to do().
Actions == {"f", "g"}

\* Keyword names and values, and every keyword mapping over them: what
\* **kwargs can hold.
Keys == {"a", "b"}
Vals == {1, 2, 99}
Bindings == UNION {[S -> Vals] : S \in SUBSET Keys}

\* The mappings handed to among() and the ones handed to a call.
Defaults == UNION {[S -> {1, 2}] : S \in SUBSET Keys}
Overrides == UNION {[S -> {99}] : S \in SUBSET Keys}

EmptyKw == [k \in {} |-> 0]

\* The positional arguments (*args) a caller passes.
PosArgs == {<< >>, << 7 >>}

\* The inputs of the timing specification, where the bindings play no part.
TimingKw == {EmptyKw, [k \in {"b"} |-> 2]}
TimingArgs == {<< >>}
TimingActions == {"f"}
TimingSources == {"monotonic"}

\* The interval values handed to the setter: valid and invalid ones.
IntervalInputs == (0 - 1) .. MaxInterval

VARIABLES
    _interval,      \* self._interval
    _time_func,     \* self._time_func: the name of the time source in use
    _action,        \* self._action: None or the bound callable
    _kwargs,        \* self._kwargs: the default keyword bindings
    _paused,        \* self._paused
    _next_time,     \* self._next_time: the next due timestamp
    clock,          \* the current reading of every time source
    last,           \* the last step: see Step
    ctor,           \* the execute_immediately argument and the reading at construction
    hist,           \* history of the gate: see Init
    race            \* the polls in progress of concurrent callers: see NoRace

vars == << _interval, _time_func, _action, _kwargs, _paused, _next_time,
           clock, last, ctor, hist, race >>

fields == << _interval, _time_func, _action, _kwargs, _paused, _next_time >>

-----------------------------------------------------------------------------
(***************************************************************************)
(* Pure helpers.                                                           *)
(***************************************************************************)

\* A mutation of MergeKwargs: the defaults win on the shared keys.
MergeDefaultsWin(d, o) ==
    [k \in (DOMAIN d) \cup (DOMAIN o) |-> IF k \in DOMAIN d THEN d[k] ELSE o[k]]

\* {**d, **o}: the keys of both, o winning on the shared ones.
MergeKwargs(d, o) ==
    [k \in (DOMAIN d) \cup (DOMAIN o) |-> IF k \in DOMAIN o THEN o[k] ELSE d[k]]

\* self._time_func()
Now == clock[_time_func]

\* The value a returning action yields for the given arguments (symbolic).
ActionResult(fn, args, kw) == << fn, args, kw >>

Max(a, b) == IF a >= b THEN a ELSE b

\* A mutation of time_remaining: the difference, without the floor at zero.
SignedRemaining == _next_time - Now

\* The time_remaining property.
time_remaining == Max(0, _next_time - Now)

\* The record of a step: the operation, its argument, what it returned or
\* raised, the invocations of the action it made, for among() the mapping
\* it found and for an interval assignment the due time it found, and how
\* often it read the time source.
Step(op, arg, ret, err, calls) ==
    [op |-> op, arg |-> arg, ret |-> ret, err |-> err, calls |-> calls,
     pre |-> None, reads |-> 0]

\* A step that calls self._time_func() once.
Reading(step) == [step EXCEPT !.reads = 1]

\* A method that returns self.
ReturnsSelf(op, arg) == Step(op, arg, << "self" >>, None, << >>)

\* self._action(*args, **merged_kwargs) with merged_kwargs = {**self._kwargs,
\* **kwargs}: the step of an operation op that runs the action, which
\* returns or raises; __call__ returns (True, result) (paired), execute
\* the bare result.
Run(op, args, kwargs, raises, paired) ==
    LET merged == MergeKwargs(_kwargs, kwargs)
        inv == [fn |-> _action, args |-> args, kwargs |-> merged,
                overrides |-> kwargs]
    IN  IF raises
        THEN Step(op, None, NoReturn, "ActionError", << inv >>)
        ELSE Step(op, None,
                  IF paired
                  THEN << TRUE, ActionResult(_action, args, merged) >>
                  ELSE ActionResult(_action, args, merged),
                  None, << inv >>)

NoFire == [at |-> Never, late |-> 0, gap |-> Never]

\* The callers that may poll the gate at the same time.
Callers == {"c1", "c2"}

\* A caller between two polls.  pc: where it stands in __call__; due: the
\* due time its last test of line 120 found met; loaded: the due time it
\* read for the += of line 121; fired: its last poll ran the action.
IdleCaller == [pc |-> "idle", due |-> Never, loaded |-> Never, fired |-> FALSE]

\* One caller at a time: no poll is in progress, and polls are serialized.
NoRace == [serialized |-> TRUE, at |-> [c \in Callers |-> IdleCaller]]

\* A mutation of InitialNextTime: the flag is ignored, the gate starts due.
InitialNextTimeDue(t, interval, execute_immediately) == t

\* A mutation of InitialNextTime: the flag is ignored, a full interval first.
InitialNextTimeLater(t, interval, execute_immediately) == t + interval

\* __init__: the first due time, t being the reading of the time source.
InitialNextTime(t, interval, execute_immediately) ==
    IF execute_immediately THEN t ELSE t + interval

-----------------------------------------------------------------------------
(***************************************************************************)
(* Construction: Every(interval, execute_immediately=...) with a positive  *)
(* interval.  The action, the bindings and the time source are the         *)
(* defaults of __init__.                                                   *)
(***************************************************************************)
Init ==
    \E i \in 1 .. MaxInterval, ei \in BOOLEAN, t \in 0 .. MaxStart :
        /\ clock = [f \in TimeFuncs |-> IF f = "monotonic" THEN t ELSE 0]
        /\ _interval = i
        /\ _time_func = "monotonic"
        /\ _action = None
        /\ _kwargs = EmptyKw
        /\ _paused = FALSE
        /\ _next_time = InitialNextTime(t, i, ei)
        /\ last = Reading(ReturnsSelf("__init__", None))
        \* via: how the gate was made; func: the time source it was left
        \*   with; t0: the reading __init__ took; f0: the reading of func
        \*   at that moment.
        /\ ctor = [execute_immediately |-> ei, t0 |-> t, f0 |-> t,
                   func |-> "monotonic", via |-> "__init__"]
        \* fires: the fires since construction, counted for as long as the
        \*   gate was never re-baselined (reset, interval assignment);
        \* rebased: the gate was re-baselined;
        \* swapped: using() installed another time source than the one of
        \*   the construction;
        \* lastFire: the reading at the last fire, how late it was (the
        \*   reading minus the due time) and the gap to the fire before;
        \* pausedAt: the due time when pause() was called, for as long as
        \*   the gate is paused and was not re-baselined.
        /\ hist = [fires |-> 0, rebased |-> FALSE, swapped |-> FALSE,
                   lastFire |-> NoFire, pausedAt |-> Never]
        /\ race = NoRace

Rebased == [hist EXCEPT !.rebased = TRUE, !.fires = 0, !.pausedAt = Never]

-----------------------------------------------------------------------------
(***************************************************************************)
(* Operations.                                                             *)
(***************************************************************************)

do(action) ==
    /\ _action' = action
    /\ last' = ReturnsSelf("do", action)
    /\ UNCHANGED << _interval, _time_func, _kwargs, _paused, _next_time,
                    clock, ctor, hist, race >>

\* A mutation of AmongValue: the new bindings are merged into the old ones.
AmongMerged(kwargs) == MergeKwargs(_kwargs, kwargs)

\* What among() stores.
AmongValue(kwargs) == kwargs

among(kwargs) ==
    /\ _kwargs' = AmongValue(kwargs)
    /\ last' = [ReturnsSelf("among", kwargs) EXCEPT !.pre = _kwargs]
    /\ UNCHANGED << _interval, _time_func, _action, _paused, _next_time,
                    clock, ctor, hist, race >>

using(time_func) ==
    /\ _time_func' = time_func
    /\ last' = ReturnsSelf("using", time_func)
    /\ hist' = IF time_func = _time_func THEN hist
               ELSE [hist EXCEPT !.swapped = TRUE, !.lastFire = NoFire]
    /\ UNCHANGED << _interval, _action, _kwargs, _paused, _next_time,
                    clock, ctor, race >>

\* A mutation of Rebaseline: the gate is made due at once.
RebaselineDue(interval) == Now

\* A mutation of Rebaseline: a due time that lies ahead is kept.
RebaselineKeep(interval) ==
    IF _next_time > Now THEN _next_time ELSE Now + interval

\* self._next_time = self._time_func() + self._interval
Rebaseline(interval) == Now + interval

reset ==
    /\ _next_time' = Rebaseline(_interval)
    /\ last' = Reading(ReturnsSelf("reset", None))
    /\ hist' = Rebased
    /\ UNCHANGED << _interval, _time_func, _action, _kwargs, _paused,
                    clock, ctor, race >>

pause ==
    /\ _paused' = TRUE
    /\ last' = ReturnsSelf("pause", None)
    /\ hist' = [hist EXCEPT !.pausedAt = _next_time]
    /\ UNCHANGED << _interval, _time_func, _action, _kwargs, _next_time,
                    clock, ctor, race >>

resume ==
    /\ _paused' = FALSE
    /\ last' = ReturnsSelf("resume", None)
    /\ hist' = [hist EXCEPT !.pausedAt = Never]
    /\ UNCHANGED << _interval, _time_func, _action, _kwargs, _next_time,
                    clock, ctor, race >>

\* A mutation of IsPaused: the flag is not looked at.
NeverPaused == FALSE

\* if self._paused
IsPaused == _paused

\* A mutation of Due: the gate is due a tick early.
DueAhead == Now + 1 >= _next_time

\* A mutation of Due: a strict comparison.
DueStrictly == Now > _next_time

\* if self._time_func() >= self._next_time
Due == Now >= _next_time

\* A mutation of DueAfterFire: now + interval.
DueAfterFireFromNow == Now + _interval

\* A mutation of DueAfterFire: every elapsed interval is consumed at once.
DueAfterFireCatchUp ==
    _next_time + _interval * (((Now - _next_time) \div _interval) + 1)

\* A mutation of DueAfterFire: the due time is not advanced.
DueAfterFireStuck == _next_time

\* self._next_time += self._interval
DueAfterFire == _next_time + _interval

\* A mutation of Fire: the due time is advanced after the action has
\* returned, so not at all when it raises.
FireThenAdvance(args, kwargs, raises) ==
    /\ _next_time' = IF raises THEN _next_time ELSE _next_time + _interval
    /\ last' = Reading(Run("__call__", args, kwargs, raises, TRUE))
    /\ hist' = [hist EXCEPT
                  !.fires = IF hist.rebased THEN 0 ELSE @ + 1,
                  !.lastFire = [at |-> Now, late |-> Now - _next_time,
                                gap |-> IF hist.lastFire.at = Never THEN Never
                                        ELSE Now - hist.lastFire.at]]

\* The due branch of __call__: advance the due time, then run the action.
Fire(args, kwargs, raises) ==
    /\ _next_time' = DueAfterFire
    /\ last' = Reading(Run("__call__", args, kwargs, raises, TRUE))
    /\ hist' = [hist EXCEPT
                  !.fires = IF hist.rebased THEN 0 ELSE @ + 1,
                  !.lastFire = [at |-> Now, late |-> Now - _next_time,
                                gap |-> IF hist.lastFire.at = Never THEN Never
                                        ELSE Now - hist.lastFire.at]]

\* return False, None of a paused gate, before any reading of the time.
NotFiredPaused == Step("__call__", None, << FALSE, NoResult >>, None, << >>)

\* return False, None of a gate that is not due.
NotFired == Reading(NotFiredPaused)

\* A mutation of NotConfigured: the test comes after the one of the pause.
NotConfiguredWhileRunning == _action = None /\ ~_paused

\* if self._action is None
NotConfigured == _action = None

\* __call__(*args, **kwargs); raises: whether the action, if run, raises.
Call(args, kwargs, raises) ==
    /\ IF NotConfigured
       THEN /\ last' = Step("__call__", None, NoReturn, "ValueError", << >>)
            /\ UNCHANGED << _next_time, hist >>
       ELSE IF IsPaused
       THEN /\ last' = NotFiredPaused
            /\ UNCHANGED << _next_time, hist >>
       ELSE IF Due
       THEN Fire(args, kwargs, raises)
       ELSE /\ last' = NotFired
            /\ UNCHANGED << _next_time, hist >>
    /\ UNCHANGED << _interval, _time_func, _action, _kwargs, _paused,
                    clock, ctor, race >>

\* A mutation of execute: it runs the action only through the gate.
executeGated(args, kwargs, raises) ==
    /\ last' = IF _action = None
               THEN Step("execute", None, NoReturn, "ValueError", << >>)
               ELSE IF IsPaused \/ ~Due
               THEN Step("execute", None, NoResult, None, << >>)
               ELSE Run("execute", args, kwargs, raises, FALSE)
    /\ UNCHANGED << fields, clock, ctor, hist, race >>

\* execute(*args, **kwargs)
execute(args, kwargs, raises) ==
    /\ last' = IF NotConfigured
               THEN Step("execute", None, NoReturn, "ValueError", << >>)
               ELSE Run("execute", args, kwargs, raises, FALSE)
    /\ UNCHANGED << fields, clock, ctor, hist, race >>

\* A mutation of Invalid: zero passes.
InvalidBelowZero(value) == value < 0

\* if value <= 0
Invalid(value) == value <= 0

\* The interval setter: validation, assignment, then self.reset().
interval_setter(value) ==
    /\ IF Invalid(value)
       THEN /\ last' = Step("interval", value, NoReturn, "ValueError", << >>)
            /\ UNCHANGED << _interval, _next_time, hist >>
       ELSE /\ _interval' = value
            /\ _next_time' = Rebaseline(value)
            /\ last' = [Reading(Step("interval", value, NoReturn, None,
                                      << >>)) EXCEPT !.pre = _next_time]
            /\ hist' = Rebased
    /\ UNCHANGED << _time_func, _action, _kwargs, _paused, clock, ctor, race >>

\* Reading the time_remaining property.
read_time_remaining ==
    /\ last' = Reading(Step("time_remaining", None, << time_remaining >>,
                             None, << >>))
    /\ UNCHANGED << fields, clock, ctor, hist, race >>

\* The environment: a time source moves on by one tick.
Advance(f) ==
    /\ clock[f] < MaxTime
    /\ clock' = [clock EXCEPT ![f] = @ + 1]
    /\ last' = Step("advance", f, NoReturn, None, << >>)
    /\ UNCHANGED << fields, ctor, hist, race >>

-----------------------------------------------------------------------------
(***************************************************************************)
(* Spec: the gate on its default time source, under every operation.       *)
(***************************************************************************)
Next ==
    \/ \E a \in TimingActions : do(a)
    \/ \E kw \in TimingKw : among(kw)
    \/ \E f \in TimingSources : using(f)
    \/ reset
    \/ pause
    \/ resume
    \/ \E args \in TimingArgs, kw \in TimingKw, r \in BOOLEAN : Call(args, kw, r)
    \/ \E args \in TimingArgs, kw \in TimingKw, r \in BOOLEAN : execute(args, kw, r)
    \/ \E v \in IntervalInputs : interval_setter(v)
    \/ read_time_remaining
    \/ \E f \in TimingSources : Advance(f)

Spec == Init /\ [][Next]_vars

(***************************************************************************)
(* SpecBind: the bindings, under every keyword mapping and both callables, *)
(* for one gate of interval 1 that starts due.                             *)
(***************************************************************************)
InitBind ==
    /\ Init
    /\ _interval = 1
    /\ ctor.execute_immediately
    /\ ctor.t0 = 0

NextBind ==
    \/ \E a \in Actions : do(a)
    \/ \E kw \in Defaults : among(kw)
    \/ \E args \in PosArgs, kw \in Overrides, r \in BOOLEAN : Call(args, kw, r)
    \/ \E args \in PosArgs, kw \in Overrides, r \in BOOLEAN : execute(args, kw, r)
    \/ \E f \in TimingSources : Advance(f)

SpecBind == InitBind /\ [][NextBind]_vars

(***************************************************************************)
(* SpecSources: a gate made by the decorator Every.every, under both time  *)
(* sources, each moving on its own.                                        *)
(***************************************************************************)

\* The inputs of SpecSources: no bindings, an action that returns.
SourcesKw == {EmptyKw}
SourcesRaises == {FALSE}

\* Every.every(interval, timer_function=..., execute_immadeately=...,
\* **kwargs)(func): cls(interval, execute_immediately=...).do(func)
\* .among(**kwargs).using(timer_function).  __init__ reads monotonic.
every ==
    \E i \in 1 .. MaxInterval, ei \in BOOLEAN, t \in 0 .. MaxStart,
       c \in 0 .. MaxStart, tf \in TimeFuncs, fn \in TimingActions,
       kw \in SourcesKw :
        /\ clock = [f \in TimeFuncs |-> IF f = "monotonic" THEN t ELSE c]
        /\ _interval = i
        /\ _time_func = tf
        /\ _action = fn
        /\ _kwargs = kw
        /\ _paused = FALSE
        /\ _next_time = InitialNextTime(t, i, ei)
        /\ last = ReturnsSelf("using", tf)
        /\ ctor = [execute_immediately |-> ei, t0 |-> t, f0 |-> clock[tf],
                   func |-> tf, via |-> "every"]
        /\ hist = [fires |-> 0, rebased |-> FALSE,
                   swapped |-> (tf # "monotonic"),
                   lastFire |-> NoFire, pausedAt |-> Never]
        /\ race = NoRace

NextSources ==
    \/ \E f \in TimeFuncs : using(f)
    \/ reset
    \/ \E args \in TimingArgs, kw \in SourcesKw, r \in SourcesRaises :
           Call(args, kw, r)
    \/ \E f \in TimeFuncs : Advance(f)

SpecSources == every /\ [][NextSources]_vars

-----------------------------------------------------------------------------
(***************************************************************************)
(* What the last step was.                                                 *)
(***************************************************************************)

\* The last step was a poll.
Polled == last.op = "__call__"

\* The last step was a poll that fired: it invoked the action.
FiredStep == last.op = "__call__" /\ Len(last.calls) = 1

\* The step s is a poll that returned (False, None) and invoked nothing.
IsNotFired(s) ==
    /\ s.op = "__call__"
    /\ s.err = None
    /\ s.calls = << >>
    /\ s.ret = << FALSE, NoResult >>

\* The next poll would fire.
WouldFire == _action # None /\ ~_paused /\ Now >= _next_time

\* The due time of the construction, for a gate that kept its interval.
ConstructionDue ==
    ctor.t0 + (IF ctor.execute_immediately THEN 0 ELSE _interval)

-----------------------------------------------------------------------------
(***************************************************************************)
(* The claims.                                                             *)
(***************************************************************************)

\* C1: a gate constructed without execute_immediately, with an action bound
\* and its time source unchanged, does not fire on a poll made while the
\* time source reads less than the reading at construction plus the
\* interval: the poll returns (False, None) and invokes nothing.
C1_NoFireBeforeInterval ==
    ( /\ Polled
      /\ last.err # "ValueError"
      /\ ~ctor.execute_immediately
      /\ ~hist.swapped
      /\ Now < ctor.t0 + _interval )
    => IsNotFired(last)

\* C1 witness: a poll of a bound, running gate one tick before the first
\* due time, some time after the construction.
C1_Witness ==
    /\ last = NotFired
    /\ _action # None
    /\ ~_paused
    /\ ~ctor.execute_immediately
    /\ ~hist.rebased
    /\ Now > ctor.t0
    /\ Now = ctor.t0 + _interval - 1

\* C2: drift-freedom: as long as the gate was never reset and its interval
\* never assigned, the due time is the due time of the construction plus
\* (number of fires) * interval, whatever the readings at the polls were.
C2_DriftFree ==
    ~hist.rebased => _next_time = ConstructionDue + hist.fires * _interval

\* C2 witness: three fires, the last of them late.
C2_Witness ==
    /\ FiredStep
    /\ ~hist.rebased
    /\ hist.fires >= 3
    /\ hist.lastFire.late > 0

\* C3: no catch-up firing: a poll invokes the action at most once and
\* advances the due time by exactly one interval when it does, by nothing
\* otherwise; a bound, running gate fires exactly when the due time is <=
\* now, and a poll with the due time > now returns (False, None).
C3_NoCatchUp ==
    [][ last'.op = "__call__" =>
          /\ Len(last'.calls) <= 1
          /\ _next_time' = IF Len(last'.calls) = 1
                           THEN _next_time + _interval ELSE _next_time
          /\ (_action # None /\ ~_paused) =>
                 ((Len(last'.calls) = 1) <=> (_next_time <= Now))
          /\ (_action # None /\ _next_time > Now) => IsNotFired(last')
      ]_vars

\* C3 witness: a poll fired four intervals or more after its due time, so
\* that intervals are still missed after it.
C3_Witness ==
    /\ FiredStep
    /\ hist.lastFire.late >= 4 * _interval
    /\ _next_time <= Now

\* C4 as stated: the readings at two consecutive fires differ by at least
\* the interval.
C4_MinimumSpacing ==
    (FiredStep /\ hist.lastFire.gap # Never) => hist.lastFire.gap >= _interval

\* C4 amended: the readings at two consecutive fires differ by at least the
\* interval minus the lateness of the earlier fire.
C4_SpacingMinusLateness ==
    [][ (last'.op = "__call__" /\ Len(last'.calls) = 1
            /\ hist.lastFire.at # Never) =>
          Now - hist.lastFire.at >= _interval - hist.lastFire.late
      ]_vars

\* C4 witness: two consecutive fires at the same reading.
C4_Witness ==
    /\ FiredStep
    /\ hist.lastFire.gap = 0

\* C5: a poll of a paused gate returns (False, None), invokes nothing and
\* leaves the due time alone, due or not; pause() and resume() change the
\* paused flag only; at resume() the due time is the one pause() found; a
\* due poll right after resume() fires.
C5_PauseFrame ==
    [][ /\ (last'.op = "__call__" /\ _paused /\ _action # None) =>
               (IsNotFired(last') /\ _next_time' = _next_time)
        /\ last'.op \in {"pause", "resume"} =>
               /\ _paused' = (last'.op = "pause")
               /\ UNCHANGED << _interval, _time_func, _action, _kwargs,
                               _next_time, clock >>
        /\ (last'.op = "resume" /\ hist.pausedAt # Never) =>
               _next_time' = hist.pausedAt
        /\ (last.op = "resume" /\ last'.op = "__call__" /\ _action # None
               /\ Now >= _next_time) =>
               Len(last'.calls) = 1
      ]_vars

\* C5 witness: a poll of a paused gate that is due.
C5_Witness ==
    /\ last = NotFiredPaused
    /\ _paused
    /\ _action # None
    /\ Now >= _next_time
    /\ hist.pausedAt = _next_time

\* C6: with execute_immediately, an action bound, the gate running and its
\* time source unchanged, the first poll fires however little time has
\* elapsed (it returns (True, result) when the action returns), and after
\* it the due time is the reading at construction plus one interval.
C6_ImmediateFirstPoll ==
    [][ ( /\ last'.op = "__call__"
          /\ ctor.execute_immediately
          /\ hist.fires = 0
          /\ ~hist.rebased
          /\ ~hist.swapped
          /\ _action # None
          /\ ~_paused ) =>
          /\ Len(last'.calls) = 1
          /\ last'.err = None =>
                 /\ last'.ret[1] = TRUE
                 /\ last'.ret[2] = ActionResult(last'.calls[1].fn,
                                                last'.calls[1].args,
                                                last'.calls[1].kwargs)
          /\ _next_time' = ctor.t0 + _interval
      ]_vars

\* C6 witness: the first fire, at the very reading of the construction.
C6_Witness ==
    /\ FiredStep
    /\ last.err = None
    /\ ctor.execute_immediately
    /\ ~hist.rebased
    /\ hist.fires = 1
    /\ Now = ctor.t0

\* C7 as stated: among() merges its argument into the stored defaults: the
\* keys it does not mention keep their values.
C7_AmongMerges ==
    last.op = "among" =>
        /\ \A k \in DOMAIN last.arg :
               k \in DOMAIN _kwargs /\ _kwargs[k] = last.arg[k]
        /\ \A k \in (DOMAIN last.pre) \ (DOMAIN last.arg) :
               k \in DOMAIN _kwargs /\ _kwargs[k] = last.pre[k]

\* C7 amended: among() replaces the stored defaults by its argument.
C7_AmongReplaces ==
    last.op = "among" => _kwargs = last.arg

\* C7 witness: among(b=2) on a gate whose defaults are {a: 1}.
C7_Witness ==
    /\ last.op = "among"
    /\ last.pre = [k \in {"a"} |-> 1]
    /\ last.arg = [k \in {"b"} |-> 2]
    /\ _kwargs = [k \in {"b"} |-> 2]

\* C8: a poll that fires, and execute(), hand the stored action the
\* defaults merged with the overrides of the call, the override winning on
\* the shared keys; neither changes the stored defaults.
C8_OverrideWins ==
    [][ last'.op \in {"__call__", "execute"} =>
          /\ _kwargs' = _kwargs
          /\ Len(last'.calls) = 1 =>
                 /\ last'.calls[1].fn = _action
                 /\ DOMAIN last'.calls[1].kwargs =
                        (DOMAIN _kwargs) \cup (DOMAIN last'.calls[1].overrides)
                 /\ \A k \in DOMAIN last'.calls[1].kwargs :
                        last'.calls[1].kwargs[k] =
                            IF k \in DOMAIN last'.calls[1].overrides
                            THEN last'.calls[1].overrides[k]
                            ELSE _kwargs[k]
      ]_vars

\* C8 witness: the defaults {a: 1, b: 2}, a firing poll with b=99.
C8_Witness ==
    /\ FiredStep
    /\ _kwargs = [k \in {"a", "b"} |-> IF k = "a" THEN 1 ELSE 2]
    /\ last.calls[1].overrides = [k \in {"b"} |-> 99]
    /\ last.calls[1].kwargs = [k \in {"a", "b"} |-> IF k = "a" THEN 1 ELSE 99]

\* C9: assigning 0 or a negative value to interval raises and leaves the
\* interval, the due time, the paused flag, the action and the defaults as
\* they were.
C9_InvalidIntervalRejected ==
    [][ (last'.op = "interval" /\ last'.arg <= 0) =>
          /\ last'.err = "ValueError"
          /\ UNCHANGED << _interval, _next_time, _paused, _action, _kwargs >>
      ]_vars

\* C9 witness: interval = 0 rejected on a paused gate with an action and
\* defaults, whose due time is not now + interval.
C9_Witness ==
    /\ last.op = "interval"
    /\ last.arg = 0
    /\ last.err = "ValueError"
    /\ _paused
    /\ _action # None
    /\ _kwargs # EmptyKw
    /\ _next_time # Now + _interval

\* C10: execute() on a gate with an action invokes it exactly once and
\* returns its result, paused or not, due or not, and leaves the due time,
\* the paused flag and the interval alone: the next poll fares as without.
C10_ExecuteBypassesGate ==
    [][ (last'.op = "execute" /\ _action # None) =>
          /\ Len(last'.calls) = 1
          /\ last'.calls[1].fn = _action
          /\ last'.err = None =>
                 last'.ret = ActionResult(last'.calls[1].fn,
                                          last'.calls[1].args,
                                          last'.calls[1].kwargs)
          /\ UNCHANGED << _next_time, _paused, _interval >>
          /\ WouldFire' <=> WouldFire
      ]_vars

\* C10 witness: execute() ran the action on a paused gate that is not due.
C10_Witness ==
    /\ last.op = "execute"
    /\ Len(last.calls) = 1
    /\ last.err = None
    /\ _paused
    /\ Now < _next_time


\* C11: a poll and execute() of a gate without an action raise, paused or
\* not, due or not, before the time source is read, and leave the due
\* time, the paused flag and the interval alone.
C11_NotConfiguredRejected ==
    [][ (last'.op \in {"__call__", "execute"} /\ _action = None) =>
          /\ last'.err = "ValueError"
          /\ last'.calls = << >>
          /\ last'.reads = 0
          /\ UNCHANGED << _next_time, _paused, _interval >>
      ]_vars

\* C11 witness: a poll of a paused gate without an action that is not due.
C11_Witness ==
    /\ last.op = "__call__"
    /\ last.err = "ValueError"
    /\ _action = None
    /\ _paused
    /\ Now < _next_time

\* C12 as stated: a firing poll whose action raises lets the error through
\* with the due time advanced by one interval, and the poll that follows it
\* with the time source where it was does not fire.
C12_NoRetryAtOnce ==
    [][ /\ (last'.op = "__call__" /\ last'.err = "ActionError") =>
               (Len(last'.calls) = 1 /\ _next_time' = _next_time + _interval)
        /\ (last.op = "__call__" /\ last.err = "ActionError"
               /\ last'.op = "__call__") =>
               IsNotFired(last')
      ]_vars

\* C12 amended: the same, the poll that follows not firing when the failed
\* fire came less than one interval after its due time.
C12_NoRetryBeforeNextDue ==
    [][ /\ (last'.op = "__call__" /\ last'.err = "ActionError") =>
               /\ Len(last'.calls) = 1
               /\ last'.ret = NoReturn
               /\ _next_time' = _next_time + _interval
        /\ (last.op = "__call__" /\ last.err = "ActionError"
               /\ hist.lastFire.late < _interval
               /\ last'.op = "__call__") =>
               IsNotFired(last')
        /\ (last.op = "__call__" /\ last.err = "ActionError"
               /\ hist.lastFire.late >= _interval
               /\ last'.op = "__call__") =>
               Len(last'.calls) = 1
      ]_vars

\* C12 witness: the action raised in a fire that came late by less than an
\* interval; the gate is not due any more.
C12_Witness ==
    /\ FiredStep
    /\ last.err = "ActionError"
    /\ hist.lastFire.late > 0
    /\ hist.lastFire.late < _interval
    /\ Now < _next_time

-----------------------------------------------------------------------------
\* C13 as stated: the due time never decreases, across every operation,
\* the assignment of any valid interval included.
C13_NeverDecreases == [][ _next_time' >= _next_time ]_vars

\* An assignment of a valid interval below the current one.
ShorterInterval ==
    last'.op = "interval" /\ last'.err = None /\ last'.arg < _interval

\* C13: on a gate that keeps its time source the due time never decreases
\* across Poll, execute, reset, pause, resume, using, among, do, a rejected
\* assignment and the assignment of an interval not below the current one;
\* the assignment of a shorter interval v sets it to now + v, which may lie
\* before the old due time.
C13_DecreasesOnlyOnShorterInterval ==
    [][ IF ShorterInterval
        THEN _next_time' = Now + last'.arg
        ELSE _next_time' >= _next_time ]_vars

C13_Witness ==
    /\ last.op = "interval"
    /\ last.err = None
    /\ _next_time < last.pre
    /\ hist.lastFire.at # Never

-----------------------------------------------------------------------------
\* The step refills the time that remains: a fire, a reset, an accepted
\* interval assignment or the installation of another time source.
Refills ==
    \/ last'.op = "__call__" /\ Len(last'.calls) = 1
    \/ last'.op = "reset"
    \/ last'.op = "interval" /\ last'.err = None
    \/ last'.op = "using" /\ _time_func' # _time_func

\* C14: between two fires, with no reset, no interval change and no change
\* of the time source, time_remaining never grows from one step to the next
\* (so successive reads are non-increasing), a read returns
\* max(0, next_due - now), which is never negative, and a read changes no
\* field of the gate.
C14_RemainingNonIncreasing ==
    [][ /\ last'.op = "time_remaining" =>
              /\ UNCHANGED << fields, clock >>
              /\ last'.ret[1] >= 0
              /\ last'.ret[1] = IF _next_time > Now THEN _next_time - Now
                                ELSE 0
        /\ ~Refills => time_remaining' <= time_remaining ]_vars

C14_Witness ==
    /\ last.op = "time_remaining"
    /\ last.ret[1] = 0
    /\ Now > _next_time
    /\ hist.lastFire.at # Never
    /\ hist.lastFire.at < Now

-----------------------------------------------------------------------------
\* C15 as stated: right after a poll that fired, the time source not having
\* moved, time_remaining is the full interval.
C15_FullIntervalAfterFire == FiredStep => time_remaining = _interval

\* C15: right after a poll that fired, the time source not having moved,
\* time_remaining is the interval minus the lateness of the fire (the
\* reading at the fire minus the due time it met), floored at zero: the
\* full interval only when the poll came exactly at the due time.
C15_IntervalMinusLateness ==
    FiredStep =>
        /\ hist.lastFire.at = Now
        /\ time_remaining =
              IF hist.lastFire.late >= _interval THEN 0
              ELSE _interval - hist.lastFire.late

C15_Witness ==
    /\ FiredStep
    /\ _interval = 2
    /\ hist.lastFire.late = 1
    /\ time_remaining = 1

-----------------------------------------------------------------------------
\* C16: after reset() and after the assignment of a valid interval v the
\* due time is the current reading plus the current interval (v after an
\* assignment), whatever it was before, and a poll made now does not fire:
\* the gate fires again only a full interval after that moment.
C16_Rebaselined ==
    (last.op = "reset" \/ (last.op = "interval" /\ last.err = None)) =>
        /\ _next_time = Now + _interval
        /\ last.op = "interval" => _interval = last.arg
        /\ last.reads = 1
        /\ ~WouldFire
        /\ time_remaining = _interval

\* A reset that discards a backlog: the last fire came two intervals late.
C16_Witness ==
    /\ last.op = "reset"
    /\ hist.lastFire.at = Now
    /\ hist.lastFire.late >= 2 * _interval
    /\ _action # None
    /\ ~_paused

-----------------------------------------------------------------------------
\* C17 as stated: a gate made by Every.every with a timer_function f other
\* than the default and execute_immadeately=False fires for the first time
\* only when f reads at least an interval more than it did at the creation.
C17_DecoratedGateWaits ==
    ( /\ ctor.via = "every"
      /\ ctor.func # "monotonic"
      /\ ~ctor.execute_immediately
      /\ _time_func = ctor.func
      /\ ~hist.rebased
      /\ hist.fires = 1
      /\ FiredStep ) => Now >= ctor.f0 + _interval

-----------------------------------------------------------------------------
\* C19: on a gate that keeps one time source the due time is never more
\* than one interval ahead of the reading, so time_remaining never exceeds
\* the interval, after any sequence of operations.
C19_DueWithinInterval ==
    /\ _next_time <= Now + _interval
    /\ time_remaining <= _interval

\* The bound is met: a second fire exactly at its due time.
C19_Witness ==
    /\ FiredStep
    /\ hist.fires >= 2
    /\ _next_time = Now + _interval
    /\ time_remaining = _interval

-----------------------------------------------------------------------------
(***************************************************************************)
(* SpecRace: two callers poll one gate.  __call__ is not one step here     *)
(* but four: the tests of lines 114-120, then the read and the write of    *)
(* the += of line 121, then the invocation of line 123.  The steps of the  *)
(* two callers interleave freely, unless the callers serialize their       *)
(* polls (race.serialized): then a poll starts only when none is in        *)
(* progress.                                                               *)
(***************************************************************************)

\* A mutation of AddInterval: the due time is written back as it was read.
AddNothing(loaded) == loaded

\* self._next_time += self._interval, on the due time the caller has read.
AddInterval(loaded) == loaded + _interval

\* The inputs of SpecRace: no arguments; the action returns or raises.
RaceArgs == {<< >>}
RaceKw == {EmptyKw}

\* A gate with an action bound: Every(interval, ...).do(f), polled by
\* callers that either serialize their polls or do not.
InitRace ==
    \E i \in 1 .. MaxInterval, ei \in BOOLEAN, t \in 0 .. MaxStart,
       fn \in TimingActions, s \in BOOLEAN :
        /\ clock = [f \in TimeFuncs |-> IF f = "monotonic" THEN t ELSE 0]
        /\ _interval = i
        /\ _time_func = "monotonic"
        /\ _action = fn
        /\ _kwargs = EmptyKw
        /\ _paused = FALSE
        /\ _next_time = InitialNextTime(t, i, ei)
        /\ last = ReturnsSelf("do", fn)
        /\ ctor = [execute_immediately |-> ei, t0 |-> t, f0 |-> t,
                   func |-> "monotonic", via |-> "__init__"]
        /\ hist = [fires |-> 0, rebased |-> FALSE, swapped |-> FALSE,
                   lastFire |-> NoFire, pausedAt |-> Never]
        /\ race = [NoRace EXCEPT !.serialized = s]

\* The step of a caller inside __call__, between its lines.
Inside(op, c) == Step(op, c, NoReturn, None, << >>)

\* Lines 114-120 for caller c: the tests of the action, of the pause and
\* of the due time.  A poll that is not due returns here.
PollTest(c) ==
    /\ race.at[c].pc = "idle"
    /\ race.serialized => \A d \in Callers : race.at[d].pc = "idle"
    /\ IF NotConfigured
       THEN /\ last' = Step("__call__", None, NoReturn, "ValueError", << >>)
            /\ race' = [race EXCEPT !.at[c] = IdleCaller]
       ELSE IF IsPaused
       THEN /\ last' = NotFiredPaused
            /\ race' = [race EXCEPT !.at[c] = IdleCaller]
       ELSE IF Due
       THEN /\ last' = Reading(Inside("test", c))
            /\ race' = [race EXCEPT !.at[c] =
                          [IdleCaller EXCEPT !.pc = "load",
                                             !.due = _next_time]]
       ELSE /\ last' = NotFired
            /\ race' = [race EXCEPT !.at[c] = IdleCaller]
    /\ UNCHANGED << fields, clock, ctor, hist >>

\* Line 121 for caller c, first half: read self._next_time.
PollLoad(c) ==
    /\ race.at[c].pc = "load"
    /\ race' = [race EXCEPT !.at[c].pc = "store",
                            !.at[c].loaded = _next_time]
    /\ last' = Inside("load", c)
    /\ UNCHANGED << fields, clock, ctor, hist >>

\* Line 121 for caller c, second half: write self._next_time.
PollStore(c) ==
    /\ race.at[c].pc = "store"
    /\ _next_time' = AddInterval(race.at[c].loaded)
    /\ race' = [race EXCEPT !.at[c].pc = "invoke"]
    /\ last' = Inside("store", c)
    /\ UNCHANGED << _interval, _time_func, _action, _kwargs, _paused,
                    clock, ctor, hist >>

\* Lines 122-123 for caller c: run the action and return (True, result).
PollInvoke(c, args, kwargs, raises) ==
    /\ race.at[c].pc = "invoke"
    /\ last' = Run("__call__", args, kwargs, raises, TRUE)
    /\ hist' = [hist EXCEPT !.fires = @ + 1]
    /\ race' = [race EXCEPT !.at[c].pc = "idle", !.at[c].loaded = Never,
                            !.at[c].fired = TRUE]
    /\ UNCHANGED << fields, clock, ctor >>

NextRace ==
    \/ \E c \in Callers : PollTest(c)
    \/ \E c \in Callers : PollLoad(c)
    \/ \E c \in Callers : PollStore(c)
    \/ \E c \in Callers, args \in RaceArgs, kw \in RaceKw, r \in BOOLEAN :
           PollInvoke(c, args, kw, r)
    \/ \E f \in TimingSources : Advance(f)

SpecRace == InitRace /\ [][NextRace]_vars

\* The last polls of two callers both fired on one and the same due time.
DoubleFire ==
    \E c, d \in Callers :
        /\ c # d
        /\ race.at[c].pc = "idle" /\ race.at[c].fired
        /\ race.at[d].pc = "idle" /\ race.at[d].fired
        /\ race.at[c].due = race.at[d].due

\* The intervals that have elapsed since the construction, the one granted
\* by execute_immediately included.
Elapsed ==
    ((Now - ctor.t0) \div _interval)
        + (IF ctor.execute_immediately THEN 1 ELSE 0)

\* C18: when the polls of the callers are serialized, no two polls fire on
\* the same due time and the action has run at most once per elapsed
\* interval; when their steps interleave, the state of C18_Witness is
\* reached: two fires for one elapsed interval, the due time advanced
\* twice.
C18_SerializedNeverDoubleFires ==
    race.serialized =>
        /\ ~DoubleFire
        /\ hist.fires <= Elapsed
        /\ \A c \in Callers : race.at[c].pc = "store" =>
               race.at[c].loaded = _next_time

C18_Witness ==
    /\ ~race.serialized
    /\ DoubleFire
    /\ ~ctor.execute_immediately
    /\ Now = ctor.t0 + _interval
    /\ hist.fires = 2
    /\ _next_time = ctor.t0 + 3 * _interval

-----------------------------------------------------------------------------
(***************************************************************************)
(* SpecLive: Spec with a time source that keeps moving and a caller that   *)
(* keeps polling.  Time is cut at MaxTime, so progress is stated for the   *)
(* due times within that horizon.                                          *)
(***************************************************************************)
SpecLive ==
    /\ Init
    /\ [][Next]_vars
    /\ WF_vars(\E f \in TimingSources : Advance(f))
    /\ WF_vars(\E args \in TimingArgs, kw \in TimingKw, r \in BOOLEAN :
                  Call(args, kw, r))

\* An action is bound, the due time lies within the horizon and the last
\* step was not a fire.
AwaitsFire == _action # None /\ _next_time <= MaxTime /\ ~FiredStep

\* The last step re-baselined the gate.
RebasedStep == last.op = "reset" \/ (last.op = "interval" /\ last.err = None)

\* C20 as stated: a gate with an action, polled for ever while time moves
\* on, fires again unless pause(), reset() or an interval assignment is
\* called once more.
C20_FiresUnlessCalledAgain ==
    AwaitsFire ~> (FiredStep \/ RebasedStep \/ last.op = "pause")

\* C20: a gate with an action that is not paused, polled for ever while
\* time moves on, fires again, whether the action returns or raises,
\* unless it is paused or re-baselined first; a gate left paused never
\* fires, however often it is polled.
C20_FiresUnlessPausedOrRebased ==
    (AwaitsFire /\ ~_paused) ~> (FiredStep \/ RebasedStep \/ _paused)

\* A fire that follows a fire whose action raised.
C20_Witness ==
    /\ FiredStep
    /\ last.err = "ActionError"
    /\ hist.fires >= 2
    /\ _next_time <= MaxTime

=============================================================================
